---------------------------- MODULE Spec2Model ----------------------------
(***************************************************************************)
(* A model of qrtool.py, the command-line QR code generator.               *)
(*                                                                         *)
(* Python str values are sequences of one-character strings, so that       *)
(* strip(), startswith() and concatenation are computed and not assumed.   *)
(* Colours are <<r, g, b>> triples of 0..255 or <<r, g, b, a>> pixels.     *)
(* A PIL image is a record of its mode, its size and the list of the       *)
(* drawing operations that produced its pixels.                            *)
(***************************************************************************)
EXTENDS Integers, Sequences, FiniteSets, TLC

VARIABLES
    args,        \* the arguments generate_qr was called with
    logo_file,   \* what the file system holds at the --logo path
    pc,          \* position inside generate_qr
    encoded,     \* local: the payload after prepare_data
    fill,        \* local: the active fill colour
    bg,          \* local: the active background colour
    img,         \* local: the current bitmap
    encoder,     \* every invocation of the external QR encoder, in order
    trace,       \* the pipeline stages entered so far, in order
    stdout,      \* the lines printed so far
    saved,       \* the bitmap written to the output path, or None
    exc,         \* the stage an escaping exception came from, or "none"
    call,        \* a direct call of one of the module's functions
    ret          \* what that call returned, or None

vars == <<args, logo_file, pc, encoded, fill, bg, img, encoder, trace,
          stdout, saved, exc, call, ret>>

runvars == <<args, logo_file, pc, encoded, fill, bg, img, encoder, trace,
             stdout, saved, exc>>

\* Python's None where a str is expected: no str, whose elements are
\* single characters, equals it
None == <<"None">>

\* None where an image is expected
NoImage == [mode |-> "None", size |-> <<0, 0>>, ops |-> <<>>]

\* no call has returned
NoRet == [none |-> TRUE]

---------------------------------------------------------------------------
(* Bounds of the model.                                                    *)

\* longest run of whitespace put before and after a payload
MaxPad == 1
\* longest payload body enumerated over CoreAlphabet
MaxCore == 2
\* sample points per colour channel of the RGB grid
GridPoints == 9
\* half-width of the cube of samples around each palette colour
Radius == 2
\* number of pixels of the downscaled logo
NPixels == 3
\* largest bitmap width and height given to add_modern_frame directly
MaxDim == 40
\* largest --size (box size) argument
MaxSize == 2
\* largest QR symbol version the encoder picks
MaxVersion == 2

---------------------------------------------------------------------------
(* Python str                                                              *)

\* three of the characters str.strip() removes
Whitespace == {" ", "\t", "\n"}

RECURSIVE lstrip(_)
lstrip(s) ==
    IF s # <<>> /\ Head(s) \in Whitespace THEN lstrip(Tail(s)) ELSE s

RECURSIVE rstrip(_)
rstrip(s) ==
    IF s # <<>> /\ s[Len(s)] \in Whitespace
    THEN rstrip(SubSeq(s, 1, Len(s) - 1))
    ELSE s

strip(s) == rstrip(lstrip(s))

startswith(s, prefix) ==
    /\ Len(s) >= Len(prefix)
    /\ SubSeq(s, 1, Len(prefix)) = prefix

S_http == <<"h", "t", "t", "p", ":", "/", "/">>
S_https == <<"h", "t", "t", "p", "s", ":", "/", "/">>
S_tel == <<"t", "e", "l", ":">>
S_mailto == <<"m", "a", "i", "l", "t", "o", ":">>
S_sms == <<"s", "m", "s", ":">>
S_bg_ == <<"b", "g", "_">>

Modes == {"auto", "url", "tel", "email", "sms"}

prepare_data_nostrip(raw0, mode) ==
    LET raw == raw0 IN
    IF mode = "url"
    THEN IF ~(startswith(raw, S_http) \/ startswith(raw, S_https))
         THEN S_https \o raw
         ELSE raw
    ELSE IF mode = "tel" THEN S_tel \o raw
    ELSE IF mode = "email" THEN S_mailto \o raw
    ELSE IF mode = "sms" THEN S_sms \o raw
    ELSE raw

prepare_data(raw0, mode) ==
    LET raw == strip(raw0) IN
    IF mode = "url"
    THEN IF ~(startswith(raw, S_http) \/ startswith(raw, S_https))
         THEN S_https \o raw
         ELSE raw
    ELSE IF mode = "tel" THEN S_tel \o raw
    ELSE IF mode = "email" THEN S_mailto \o raw
    ELSE IF mode = "sms" THEN S_sms \o raw
    ELSE raw

---------------------------------------------------------------------------
(* The PLEX palette and the nearest-colour search                          *)

N_lavender == <<"l", "a", "v", "e", "n", "d", "e", "r">>
N_atomic_tangerine ==
    <<"a", "t", "o", "m", "i", "c", "_", "t", "a", "n", "g", "e", "r", "i", "n", "e">>
N_sandy_brown == <<"s", "a", "n", "d", "y", "_", "b", "r", "o", "w", "n">>
N_sunlit_clay == <<"s", "u", "n", "l", "i", "t", "_", "c", "l", "a", "y">>
N_soft_periwinkle ==
    <<"s", "o", "f", "t", "_", "p", "e", "r", "i", "w", "i", "n", "k", "l", "e">>
N_bright_lavender ==
    <<"b", "r", "i", "g", "h", "t", "_", "l", "a", "v", "e", "n", "d", "e", "r">>
N_deep_lilac == <<"d", "e", "e", "p", "_", "l", "i", "l", "a", "c">>
N_bg_main == <<"b", "g", "_", "m", "a", "i", "n">>
N_bg_elevated == <<"b", "g", "_", "e", "l", "e", "v", "a", "t", "e", "d">>

\* the dict, in insertion order
PLEX_PALETTE ==
    << [name |-> N_lavender,         rgb |-> <<227, 227, 237>>],
       [name |-> N_atomic_tangerine, rgb |-> <<236, 121, 63>>],
       [name |-> N_sandy_brown,      rgb |-> <<242, 160, 102>>],
       [name |-> N_sunlit_clay,      rgb |-> <<234, 180, 103>>],
       [name |-> N_soft_periwinkle,  rgb |-> <<166, 144, 249>>],
       [name |-> N_bright_lavender,  rgb |-> <<186, 128, 226>>],
       [name |-> N_deep_lilac,       rgb |-> <<111, 69, 188>>],
       [name |-> N_bg_main,          rgb |-> <<244, 244, 251>>],
       [name |-> N_bg_elevated,      rgb |-> <<248, 247, 255>>] >>

\* PLEX_PALETTE[name]
PaletteGet(name) ==
    LET i == CHOOSE k \in 1..Len(PLEX_PALETTE) : PLEX_PALETTE[k].name = name
    IN  PLEX_PALETTE[i].rgb

\* float("inf"): above every squared distance between two RGB triples
Inf == 3 * 255 * 255 + 1

SqDist(rgb, p) ==
    LET dr == rgb[1] - p[1]
        dg == rgb[2] - p[2]
        db == rgb[3] - p[3]
    IN  dr * dr + dg * dg + db * db

RECURSIVE NearestLoop_le(_, _, _)
NearestLoop_le(rgb, i, best) ==
    IF i > Len(PLEX_PALETTE) THEN best
    ELSE LET e == PLEX_PALETTE[i]
             dist == SqDist(rgb, e.rgb)
         IN  IF startswith(e.name, S_bg_)
             THEN NearestLoop_le(rgb, i + 1, best)
             ELSE IF dist <= best.dist
             THEN NearestLoop_le(rgb, i + 1,
                                 [name |-> e.name, rgb |-> e.rgb, dist |-> dist])
             ELSE NearestLoop_le(rgb, i + 1, best)

RECURSIVE NearestLoop_all(_, _, _)
NearestLoop_all(rgb, i, best) ==
    IF i > Len(PLEX_PALETTE) THEN best
    ELSE LET e == PLEX_PALETTE[i]
             dist == SqDist(rgb, e.rgb)
         IN  IF dist < best.dist
             THEN NearestLoop_all(rgb, i + 1,
                                  [name |-> e.name, rgb |-> e.rgb, dist |-> dist])
             ELSE NearestLoop_all(rgb, i + 1, best)

\* one iteration of the for loop, on entry number i; best is the triple of
\* best_name, best_rgb and best_dist
RECURSIVE NearestLoop(_, _, _)
NearestLoop(rgb, i, best) ==
    IF i > Len(PLEX_PALETTE) THEN best
    ELSE LET e == PLEX_PALETTE[i]
             dist == SqDist(rgb, e.rgb)
         IN  IF startswith(e.name, S_bg_)
             THEN NearestLoop(rgb, i + 1, best)
             ELSE IF dist < best.dist
             THEN NearestLoop(rgb, i + 1,
                              [name |-> e.name, rgb |-> e.rgb, dist |-> dist])
             ELSE NearestLoop(rgb, i + 1, best)

nearest_palette_colour(rgb) ==
    LET best == NearestLoop(rgb, 1,
                    [name |-> N_deep_lilac, rgb |-> PaletteGet(N_deep_lilac),
                     dist |-> Inf])
    IN  [name |-> best.name, rgb |-> best.rgb]

HexDigits == <<"0", "1", "2", "3", "4", "5", "6", "7",
               "8", "9", "A", "B", "C", "D", "E", "F">>

\* "{:02X}"
Hex02(n) == <<HexDigits[(n \div 16) + 1], HexDigits[(n % 16) + 1]>>

rgb_to_hex(rgb) == <<"#">> \o Hex02(rgb[1]) \o Hex02(rgb[2]) \o Hex02(rgb[3])

---------------------------------------------------------------------------
(* The logo file and colour inference                                      *)

\* What the --logo path names: nothing or a directory ("missing"), a file
\* that cannot be opened ("unreadable"), a file that is no image
\* ("corrupt"), or an image ("valid") of the given size whose data after
\* the downscale of line 82 is `pixels`.
LogoKinds == {"missing", "unreadable", "corrupt", "valid"}

\* logo_path.is_file()
is_file(file) == file.kind \in {"unreadable", "corrupt", "valid"}

\* Image.open(logo_path).convert("RGBA") succeeds
CanOpen(file) == file.kind = "valid"

\* line 101: the three floor divisions by count, which raise when it is 0
Average(acc) ==
    IF acc.count = 0
    THEN [exc |-> "ZeroDivisionError", rgb |-> <<0, 0, 0>>]
    ELSE [exc |-> "none",
          rgb |-> <<acc.total_r \div acc.count, acc.total_g \div acc.count,
                    acc.total_b \div acc.count>>]

\* the for loop over the pixels, from pixel i on
RECURSIVE SumLoop(_, _, _)
SumLoop(pixels, i, acc) ==
    IF i > Len(pixels) THEN acc
    ELSE LET r == pixels[i][1]
             g == pixels[i][2]
             b == pixels[i][3]
             a == pixels[i][4]
         IN  IF a < 32 THEN SumLoop(pixels, i + 1, acc)
             ELSE IF r > 245 /\ g > 245 /\ b > 245
             THEN SumLoop(pixels, i + 1, acc)
             ELSE SumLoop(pixels, i + 1,
                          [total_r |-> acc.total_r + r,
                           total_g |-> acc.total_g + g,
                           total_b |-> acc.total_b + b,
                           count   |-> acc.count + 1])

W_infer == "[WARN] Could not open logo for colour inference"
W_overlay == "[WARN] Logo path does not exist"
I_auto == "[INFO] Auto-styled colours"
OK_saved == "[OK] Saved QR code to"

\* the result of infer_qr_colours_from_logo; divisors lists the values
\* the function divided by, in order
InferResult(f, b, out, e, d) ==
    [fill |-> f, bg |-> b, stdout |-> out, exc |-> e, divisors |-> d]

infer_qr_colours_from_logo_nocheck(file) ==
    IF ~CanOpen(file)
    THEN InferResult(<<"#", "0", "0", "0", "0", "0", "0">>,
                     <<"#", "F", "F", "F", "F", "F", "F">>,
                     <<W_infer>>, "none", <<>>)
    ELSE LET acc == SumLoop(file.pixels, 1,
                        [total_r |-> 0, total_g |-> 0, total_b |-> 0, count |-> 0])
             bg_hex == rgb_to_hex(PaletteGet(N_bg_main))
             avg == Average(acc)
         IN  IF avg.exc # "none"
             THEN InferResult(None, None, <<>>, avg.exc, <<acc.count>>)
             ELSE InferResult(rgb_to_hex(nearest_palette_colour(avg.rgb).rgb),
                              bg_hex, <<>>, "none",
                              <<acc.count, acc.count, acc.count>>)

infer_qr_colours_from_logo(file) ==
    IF ~CanOpen(file)
    THEN InferResult(<<"#", "0", "0", "0", "0", "0", "0">>,
                     <<"#", "F", "F", "F", "F", "F", "F">>,
                     <<W_infer>>, "none", <<>>)
    ELSE LET acc == SumLoop(file.pixels, 1,
                        [total_r |-> 0, total_g |-> 0, total_b |-> 0, count |-> 0])
             bg_hex == rgb_to_hex(PaletteGet(N_bg_main))
             avg == Average(acc)
         IN  IF acc.count = 0
             THEN InferResult(rgb_to_hex(PaletteGet(N_deep_lilac)), bg_hex,
                              <<>>, "none", <<>>)
             ELSE IF avg.exc # "none"
             THEN InferResult(None, None, <<>>, avg.exc, <<acc.count>>)
             ELSE InferResult(rgb_to_hex(nearest_palette_colour(avg.rgb).rgb),
                              bg_hex, <<>>, "none",
                              <<acc.count, acc.count, acc.count>>)

---------------------------------------------------------------------------
(* Bitmaps and the compositor                                              *)

\* int(n * 0.26), int(n * 0.16), int(n * 0.06), int(n * 0.1), int(n * 0.03):
\* the float product truncated, which for every n below 300000 is the
\* integer quotient
Pct(n, p) == (n * p) \div 100

Abs(n) == IF n < 0 THEN -n ELSE n

Max(a, b) == IF a >= b THEN a ELSE b

Min(a, b) == IF a <= b THEN a ELSE b

\* Image.thumbnail((m, m)) on an image of size <<w, h>>: the new size.
\* Never enlarges; keeps the aspect ratio, taking of floor and ceiling
\* the one that keeps it best.
thumbnail(size, m) ==
    LET w == size[1]
        h == size[2]
    IN  IF m >= w /\ m >= h THEN size
        ELSE IF h >= w
        THEN LET lo == (m * w) \div h
                 hi == IF (m * w) % h = 0 THEN lo ELSE lo + 1
                 x == IF Abs(w * m - lo * h) <= Abs(w * m - hi * h) THEN lo ELSE hi
             IN  <<Max(x, 1), m>>
        ELSE LET lo == (m * h) \div w
                 hi == IF (m * h) % w = 0 THEN lo ELSE lo + 1
                 y == IF lo = 0 THEN lo
                      ELSE IF Abs(w * lo - m * h) * hi <= Abs(w * hi - m * h) * lo
                      THEN lo ELSE hi
             IN  <<m, Max(y, 1)>>

OverlayResult(i, out, e) == [img |-> i, stdout |-> out, exc |-> e]

\* lines 192-208: the image with the rounded white container composited
WithContainer(qr_image) ==
    LET qr_w == qr_image.size[1]
        qr_h == qr_image.size[2]
        container_size == Pct(qr_w, 26)
        radius == Pct(container_size, 16)
        c_x == (qr_w - container_size) \div 2
        c_y == (qr_h - container_size) \div 2
    IN  [mode |-> "RGBA", size |-> qr_image.size,
         ops |-> Append(qr_image.ops,
                    [op |-> "container", x |-> c_x, y |-> c_y,
                     size |-> container_size, radius |-> radius,
                     fill |-> <<255, 255, 255, 255>>])]

\* lines 211-223: the logo scaled, centred and composited
WithLogo(im, file) ==
    LET qr_w == im.size[1]
        qr_h == im.size[2]
        container_size == Pct(qr_w, 26)
        c_x == (qr_w - container_size) \div 2
        c_y == (qr_h - container_size) \div 2
        margin == Pct(container_size, 6)
        max_logo == container_size - 2 * margin
        logo == thumbnail(file.size, max_logo)
        l_x == c_x + (container_size - logo[1]) \div 2
        l_y == c_y + (container_size - logo[2]) \div 2
    IN  [im EXCEPT !.ops = Append(@,
            [op |-> "logo", x |-> l_x, y |-> l_y, w |-> logo[1], h |-> logo[2]])]

overlay_logo_with_container_nocheck(qr_image, file) ==
    IF ~CanOpen(file)
    THEN OverlayResult(NoImage, <<>>, "overlay")
    ELSE OverlayResult(WithLogo(WithContainer(qr_image), file), <<>>, "none")

overlay_logo_with_container(qr_image, file) ==
    IF ~is_file(file)
    THEN OverlayResult(qr_image, <<W_overlay>>, "none")
    ELSE IF ~CanOpen(file)
    THEN OverlayResult(NoImage, <<>>, "overlay")
    ELSE OverlayResult(WithLogo(WithContainer(qr_image), file), <<>>, "none")

add_modern_frame_round(qr_image, bg_colour) ==
    LET qr_w == qr_image.size[1]
        qr_h == qr_image.size[2]
        padding == (qr_w * 3 + 50) \div 100
        frame_w == qr_w + 2 * padding
        frame_h == qr_h + 2 * padding
        radius == Pct(Min(frame_w, frame_h), 10)
    IN  [mode |-> "RGBA", size |-> <<frame_w, frame_h>>,
         ops |-> << [op |-> "rounded_rectangle", w |-> frame_w, h |-> frame_h,
                     radius |-> radius, fill |-> bg_colour],
                    [op |-> "image", x |-> padding, y |-> padding,
                     size |-> qr_image.size, ops |-> qr_image.ops] >>]

add_modern_frame(qr_image, bg_colour) ==
    LET qr_w == qr_image.size[1]
        qr_h == qr_image.size[2]
        padding == Pct(qr_w, 3)
        frame_w == qr_w + 2 * padding
        frame_h == qr_h + 2 * padding
        radius == Pct(Min(frame_w, frame_h), 10)
    IN  [mode |-> "RGBA", size |-> <<frame_w, frame_h>>,
         ops |-> << [op |-> "rounded_rectangle", w |-> frame_w, h |-> frame_h,
                     radius |-> radius, fill |-> bg_colour],
                    [op |-> "image", x |-> padding, y |-> padding,
                     size |-> qr_image.size, ops |-> qr_image.ops] >>]

---------------------------------------------------------------------------
(* The external QR encoder                                                 *)

\* line 284: border=4
Border == 4

\* the arguments of one invocation: QRCode(...), add_data, make_image
EncoderCall(payload, level, size, fill_color, back_color) ==
    [payload |-> payload, error_correction |-> level, box_size |-> size,
     border |-> Border, fill_color |-> fill_color, back_color |-> back_color]

\* the bitmap the encoder renders for a symbol of the given version:
\* 17 + 4 * version modules and the border on both sides, box_size pixels
\* each, converted to RGBA
Render(c, version) ==
    LET n == (17 + 4 * version + 2 * c.border) * c.box_size
    IN  [mode |-> "RGBA", size |-> <<n, n>>,
         ops |-> << [op |-> "qr", payload |-> c.payload,
                     error_correction |-> c.error_correction,
                     fill |-> c.fill_color, back |-> c.back_color] >>]

---------------------------------------------------------------------------
(* Inputs                                                                  *)

SeqsUpTo(S, n) == UNION {[1..k -> S] : k \in 0..n}

S_black == <<"b", "l", "a", "c", "k">>
S_white == <<"w", "h", "i", "t", "e">>
S_red == <<"r", "e", "d">>
S_navy == <<"n", "a", "v", "y">>
S_logo_png == <<"l", "o", "g", "o", ".", "p", "n", "g">>
S_a_com == <<"a", ".", "c", "o", "m">>

\* RGBA pixels of a downscaled logo: transparent, just below and at the
\* alpha threshold, white, just above and at the brightness threshold,
\* and two opaque colours
PixelSamples ==
    { <<0, 0, 0, 0>>, <<10, 20, 200, 31>>, <<111, 69, 188, 32>>,
      <<255, 255, 255, 255>>, <<246, 246, 246, 255>>, <<245, 246, 246, 255>>,
      <<236, 121, 63, 255>>, <<0, 0, 0, 255>> }

RunPixelSamples ==
    { <<0, 0, 0, 0>>, <<255, 255, 255, 255>>, <<236, 121, 63, 255>> }

LogoSizes == { <<512, 512>>, <<300, 100>>, <<3, 5>> }

BadLogoFiles ==
    { [kind |-> k, size |-> <<0, 0>>, pixels |-> <<>>] :
        k \in {"missing", "unreadable", "corrupt"} }

LogoFiles(samples, sizes) ==
    BadLogoFiles \cup
    { [kind |-> "valid", size |-> sz, pixels |-> px] :
        sz \in sizes, px \in [1..NPixels -> samples] }

---------------------------------------------------------------------------
(* generate_qr                                                             *)

Truthy(s) == s # None /\ s # <<>>

\* line 264
logo_path == IF Truthy(args.logo) THEN args.logo ELSE None

RunArgs ==
    [ data       : { <<" ">> \o S_a_com \o <<"\n">>, S_https \o S_a_com },
      mode       : {"auto", "url"},
      size       : 1..MaxSize,
      fill       : {None, S_red},
      bg         : {None, S_navy},
      logo       : {None, <<>>, S_logo_png},
      no_frame   : BOOLEAN,
      auto_style : BOOLEAN ]

NoCall == [fn |-> "none"]

Init ==
    /\ args \in RunArgs
    /\ logo_file \in
         IF Truthy(args.logo)
         THEN LogoFiles(RunPixelSamples, { <<512, 512>> })
         ELSE { [kind |-> "missing", size |-> <<0, 0>>, pixels |-> <<>>] }
    /\ pc = "start"
    /\ encoded = None
    /\ fill = args.fill
    /\ bg = args.bg
    /\ img = NoImage
    /\ encoder = <<>>
    /\ trace = <<>>
    /\ stdout = <<>>
    /\ saved = NoImage
    /\ exc = "none"
    /\ call = NoCall
    /\ ret = NoRet

\* line 262
Prepare ==
    /\ pc = "start"
    /\ encoded' = prepare_data(args.data, args.mode)
    /\ trace' = Append(trace, "prepare_data")
    /\ pc' = "colours"
    /\ UNCHANGED <<args, logo_file, fill, bg, img, encoder, stdout, saved, exc,
                   call, ret>>

\* lines 266-273 on the arguments a: the colours chosen, what is printed,
\* the stage entered and the exception raised
ChooseColours(a, file) ==
    IF a.auto_style /\ Truthy(a.logo)
    THEN LET r == infer_qr_colours_from_logo(file)
         IN  [fill |-> r.fill, bg |-> r.bg, exc |-> r.exc,
              stdout |-> IF r.exc = "none" THEN r.stdout \o <<I_auto>> ELSE r.stdout,
              stages |-> <<"infer">>]
    ELSE [fill |-> IF a.fill = None THEN S_black ELSE a.fill,
          bg |-> IF a.bg = None THEN S_white ELSE a.bg,
          exc |-> "none", stdout |-> <<>>, stages |-> <<>>]

\* lines 266-273
Colours ==
    /\ pc = "colours"
    /\ LET r == ChooseColours(args, logo_file)
       IN  /\ trace' = trace \o r.stages
           /\ stdout' = stdout \o r.stdout
           /\ IF r.exc # "none"
              THEN /\ exc' = "infer"
                   /\ pc' = "raised"
                   /\ UNCHANGED <<fill, bg>>
              ELSE /\ fill' = r.fill
                   /\ bg' = r.bg
                   /\ pc' = "encode"
                   /\ UNCHANGED exc
    /\ UNCHANGED <<args, logo_file, encoded, img, encoder, saved, call, ret>>

error_level_not_none == IF args.logo # None THEN "H" ELSE "M"

\* lines 276-278
error_level == IF Truthy(args.logo) THEN "H" ELSE "M"

\* lines 280-289, the encoder returning a bitmap
Encode ==
    /\ pc = "encode"
    /\ \E version \in 1..MaxVersion :
         LET c == EncoderCall(encoded, error_level, args.size, fill, bg)
         IN  /\ encoder' = Append(encoder, c)
             /\ img' = Render(c, version)
    /\ trace' = Append(trace, "encode")
    /\ pc' = "overlay"
    /\ UNCHANGED <<args, logo_file, encoded, fill, bg, stdout, saved, exc,
                   call, ret>>

\* lines 280-289, the encoder raising (a payload too large for any symbol
\* version, a colour it does not know)
EncodeRaises ==
    /\ pc = "encode"
    /\ encoder' = Append(encoder,
                         EncoderCall(encoded, error_level, args.size, fill, bg))
    /\ trace' = Append(trace, "encode")
    /\ exc' = "encoder"
    /\ pc' = "raised"
    /\ UNCHANGED <<args, logo_file, encoded, fill, bg, img, stdout, saved,
                   call, ret>>

\* lines 291-292
OverlayLogo ==
    /\ pc = "overlay"
    /\ logo_path # None
    /\ LET r == overlay_logo_with_container(img, logo_file)
       IN  /\ trace' = Append(trace, "overlay")
           /\ stdout' = stdout \o r.stdout
           /\ IF r.exc # "none"
              THEN /\ exc' = "overlay"
                   /\ pc' = "raised"
                   /\ UNCHANGED img
              ELSE /\ img' = r.img
                   /\ pc' = "frame"
                   /\ UNCHANGED exc
    /\ UNCHANGED <<args, logo_file, encoded, fill, bg, encoder, saved, call, ret>>

\* line 291, no logo
NoLogo ==
    /\ pc = "overlay"
    /\ logo_path = None
    /\ pc' = "frame"
    /\ UNCHANGED <<args, logo_file, encoded, fill, bg, img, encoder, trace,
                   stdout, saved, exc, call, ret>>

Frame_arg_bg ==
    /\ pc = "frame"
    /\ ~args.no_frame
    /\ img' = add_modern_frame(img, IF args.bg = None THEN S_white ELSE args.bg)
    /\ trace' = Append(trace, "frame")
    /\ pc' = "save"
    /\ UNCHANGED <<args, logo_file, encoded, fill, bg, encoder, stdout, saved,
                   exc, call, ret>>

\* lines 294-295
Frame ==
    /\ pc = "frame"
    /\ ~args.no_frame
    /\ img' = add_modern_frame(img, bg)
    /\ trace' = Append(trace, "frame")
    /\ pc' = "save"
    /\ UNCHANGED <<args, logo_file, encoded, fill, bg, encoder, stdout, saved,
                   exc, call, ret>>

\* line 294, --no-frame
NoFrame ==
    /\ pc = "frame"
    /\ args.no_frame
    /\ pc' = "save"
    /\ UNCHANGED <<args, logo_file, encoded, fill, bg, img, encoder, trace,
                   stdout, saved, exc, call, ret>>

\* line 297
Save ==
    /\ pc = "save"
    /\ saved' = img
    /\ trace' = Append(trace, "save")
    /\ pc' = "report"
    /\ UNCHANGED <<args, logo_file, encoded, fill, bg, img, encoder, stdout,
                   exc, call, ret>>

\* line 297, the output path not writable
SaveRaises ==
    /\ pc = "save"
    /\ trace' = Append(trace, "save")
    /\ exc' = "save"
    /\ pc' = "raised"
    /\ UNCHANGED <<args, logo_file, encoded, fill, bg, img, encoder, stdout,
                   saved, call, ret>>

\* line 298
Report ==
    /\ pc = "report"
    /\ stdout' = Append(stdout, OK_saved)
    /\ pc' = "done"
    /\ UNCHANGED <<args, logo_file, encoded, fill, bg, img, encoder, trace,
                   saved, exc, call, ret>>

Next ==
    \/ Prepare
    \/ Colours
    \/ Encode
    \/ EncodeRaises
    \/ OverlayLogo
    \/ NoLogo
    \/ Frame
    \/ NoFrame
    \/ Save
    \/ SaveRaises
    \/ Report

Spec == Init /\ [][Next]_vars

---------------------------------------------------------------------------
(* Properties of a run of generate_qr, checked under Spec                  *)

IsPrefix(s, t) == Len(s) <= Len(t) /\ SubSeq(t, 1, Len(s)) = s

Range(s) == {s[i] : i \in DOMAIN s}

\* the bitmap was produced by add_modern_frame
Framed(im) == im.ops # <<>> /\ im.ops[1].op = "rounded_rectangle"

\* the drawing operations of the QR bitmap itself, under the frame if any
QrOps(im) == IF Framed(im) THEN im.ops[2].ops ELSE im.ops

\* a logo has been composited onto the bitmap
HasLogo(im) == \E k \in DOMAIN QrOps(im) : QrOps(im)[k].op = "logo"

\* a --logo path was given and what it names is not a usable image
BadLogo == logo_path # None /\ logo_file.kind \in {"missing", "unreadable", "corrupt"}

\* C1: when the --logo path is missing, unreadable or no image, no
\* exception escapes from colour inference or from the overlay, and a run
\* that ends has saved the image and reported [OK].
C1_LogoFailuresNeverAbort ==
    BadLogo =>
        /\ exc \notin {"infer", "overlay"}
        /\ pc = "done" => saved # NoImage /\ OK_saved \in Range(stdout)

\* the overlay stage will composite the logo: a path was given and it
\* names a file that decodes
WillOverlay == logo_path # None /\ is_file(logo_file) /\ CanOpen(logo_file)

\* C8 as stated: the encoder is invoked with level H exactly when a logo
\* will actually be overlaid, and with M otherwise, also in the runs where
\* the overlay is skipped.  Once the overlay stage is over, that is: level
\* H exactly when the bitmap carries the logo.
C8_LevelHIffLogoOverlaid ==
    /\ pc \in {"frame", "save", "report", "done"} =>
         /\ HasLogo(img) <=> WillOverlay
         /\ \A i \in DOMAIN encoder :
              encoder[i].error_correction = IF HasLogo(img) THEN "H" ELSE "M"
    /\ WillOverlay => \A i \in DOMAIN encoder : encoder[i].error_correction = "H"

\* C8 amended: the encoder is invoked with level H exactly when a
\* non-empty --logo argument was given, whether or not the overlay then
\* takes place, and with M otherwise; so every bitmap that carries a logo
\* was encoded with H.
C8_LevelHIffLogoArgument ==
    /\ \A i \in DOMAIN encoder :
         encoder[i].error_correction =
            IF args.logo # None /\ Len(args.logo) > 0 THEN "H" ELSE "M"
    /\ HasLogo(img) => encoder # <<>> /\ encoder[Len(encoder)].error_correction = "H"

\* a run that ended with the overlay skipped for a missing logo file and
\* the encoder nevertheless invoked with H
C8_Witness ==
    /\ pc = "done"
    /\ args.logo = S_logo_png
    /\ logo_file.kind = "missing"
    /\ ~HasLogo(saved)
    /\ Len(encoder) = 1
    /\ encoder[1].error_correction = "H"

\* the colours the same run chooses when --fill and --bg are not given
ColoursWithoutFillBg ==
    ChooseColours([args EXCEPT !.fill = None, !.bg = None], logo_file)

\* C9: with --auto-style set, the colours passed to the encoder and the
\* background passed to add_modern_frame are those of the same run without
\* --fill and --bg, with or without a --logo.
C9_AutoStyleIgnoresFillBg ==
    args.auto_style =>
        /\ \A i \in DOMAIN encoder :
             /\ encoder[i].fill_color = ColoursWithoutFillBg.fill
             /\ encoder[i].back_color = ColoursWithoutFillBg.bg
        /\ Framed(img) => img.ops[1].fill = ColoursWithoutFillBg.bg

Opt(cond, stage) == IF cond THEN <<stage>> ELSE <<>>

\* the stages of C10 as stated: with auto-style and a logo, a first render,
\* the colour derivation, and a second render
ClaimedStages ==
    <<"prepare_data">>
    \o (IF args.auto_style /\ logo_path # None
        THEN <<"encode", "infer", "encode">> ELSE <<"encode">>)
    \o Opt(logo_path # None, "overlay")
    \o Opt(~args.no_frame, "frame")
    \o <<"save">>

ActualStages ==
    <<"prepare_data">>
    \o Opt(args.auto_style /\ logo_path # None, "infer")
    \o <<"encode">>
    \o Opt(logo_path # None, "overlay")
    \o Opt(~args.no_frame, "frame")
    \o <<"save">>

---------------------------------------------------------------------------
(* Direct calls of the module's functions                                  *)

\* line 126: the default of --size
DefaultSize == 10

Byte == 0..255

GridValues == {(255 * i) \div (GridPoints - 1) : i \in 0..(GridPoints - 1)}

\* triples at the same distance from two candidate colours
TiePoints ==
    { <<45, 252, 126>>, <<48, 95, 0>>, <<85, 254, 150>>, <<90, 251, 146>>,
      <<114, 181, 147>>, <<146, 131, 116>>, <<148, 125, 112>>,
      <<160, 130, 136>>, <<203, 79, 144>> }

RGBSamples ==
    (GridValues \X GridValues \X GridValues)
    \cup TiePoints
    \cup { c \in UNION { ((e.rgb[1] - Radius)..(e.rgb[1] + Radius))
                         \X ((e.rgb[2] - Radius)..(e.rgb[2] + Radius))
                         \X ((e.rgb[3] - Radius)..(e.rgb[3] + Radius)) :
                         e \in Range(PLEX_PALETTE) } :
             c[1] \in Byte /\ c[2] \in Byte /\ c[3] \in Byte }

Pads == SeqsUpTo(Whitespace, MaxPad)

Cores ==
    SeqsUpTo({"a", " "}, MaxCore)
    \cup { S_a_com, S_https \o S_a_com, S_http \o S_a_com, S_https, S_http,
           <<"h", "t", "t", "p", ":", "/">>,
           <<"H", "T", "T", "P", ":", "/", "/", "a">>,
           <<"a", " ", "h", "t", "t", "p", ":", "/", "/">>,
           <<"+", "1", "5", "5", "5">>, <<"a", "@", "b", ".", "c", "o", "m">>,
           <<"x">>, S_tel \o <<"1">> }

RawInputs == {l \o c \o t : l \in Pads, c \in Cores, t \in Pads}

\* bitmaps as the encoder renders them, before and after convert("RGBA")
QrBitmaps ==
    { [Render(EncoderCall(S_a_com, ec, size, S_black, S_white), v)
          EXCEPT !.mode = m] :
        ec \in {"M", "H"}, size \in (1..MaxSize) \cup {DefaultSize},
        v \in 1..MaxVersion, m \in {"RGB", "RGBA"} }

\* bitmaps of every width and height up to MaxDim
PlainBitmaps ==
    { [mode |-> "RGBA", size |-> <<w, h>>, ops |-> <<>>] :
        w \in 1..MaxDim, h \in 1..MaxDim }

Calls ==
    { [fn |-> "nearest_palette_colour", rgb |-> c] : c \in RGBSamples }
    \cup { [fn |-> "prepare_data", raw |-> r, mode |-> m] :
             r \in RawInputs, m \in Modes }
    \cup { [fn |-> "infer_qr_colours_from_logo", file |-> f] :
             f \in LogoFiles(PixelSamples, { <<512, 512>> }) }
    \cup { [fn |-> "overlay_logo_with_container", qr_image |-> q, file |-> f] :
             q \in QrBitmaps, f \in LogoFiles({ <<236, 121, 63, 255>> }, LogoSizes) }
    \cup { [fn |-> "add_modern_frame", qr_image |-> q, bg |-> S_white] :
             q \in PlainBitmaps \cup QrBitmaps }

IdleArgs ==
    [data |-> <<>>, mode |-> "auto", size |-> DefaultSize, fill |-> None,
     bg |-> None, logo |-> None, no_frame |-> FALSE, auto_style |-> FALSE]

CallInit ==
    /\ call \in Calls
    /\ ret = NoRet
    /\ args = IdleArgs
    /\ logo_file = [kind |-> "missing", size |-> <<0, 0>>, pixels |-> <<>>]
    /\ pc = "idle"
    /\ encoded = None
    /\ fill = None
    /\ bg = None
    /\ img = NoImage
    /\ encoder = <<>>
    /\ trace = <<>>
    /\ stdout = <<>>
    /\ saved = NoImage
    /\ exc = "none"

CallNearest ==
    /\ ret = NoRet
    /\ call.fn = "nearest_palette_colour"
    /\ ret' = nearest_palette_colour(call.rgb)
    /\ UNCHANGED <<runvars, call>>

CallPrepare ==
    /\ ret = NoRet
    /\ call.fn = "prepare_data"
    /\ ret' = [value |-> prepare_data(call.raw, call.mode), exc |-> "none"]
    /\ UNCHANGED <<runvars, call>>

CallInfer ==
    /\ ret = NoRet
    /\ call.fn = "infer_qr_colours_from_logo"
    /\ ret' = infer_qr_colours_from_logo(call.file)
    /\ UNCHANGED <<runvars, call>>

CallOverlay ==
    /\ ret = NoRet
    /\ call.fn = "overlay_logo_with_container"
    /\ ret' = overlay_logo_with_container(call.qr_image, call.file)
    /\ UNCHANGED <<runvars, call>>

CallFrame ==
    /\ ret = NoRet
    /\ call.fn = "add_modern_frame"
    /\ ret' = [img |-> add_modern_frame(call.qr_image, call.bg)]
    /\ UNCHANGED <<runvars, call>>

CallNext ==
    \/ CallNearest
    \/ CallPrepare
    \/ CallInfer
    \/ CallOverlay
    \/ CallFrame

CallSpec == CallInit /\ [][CallNext]_vars

Returned(fn) == call.fn = fn /\ ret # NoRet

---------------------------------------------------------------------------
(* Properties of the functions, checked under CallSpec                     *)

\* the palette entries that are no surface colours
CandidateIdx ==
    {i \in DOMAIN PLEX_PALETTE :
        PLEX_PALETTE[i].name \notin {N_bg_main, N_bg_elevated}}

\* squared Euclidean distance of c to palette entry i
D2(c, i) ==
    LET q == PLEX_PALETTE[i].rgb
    IN  (c[1] - q[1]) * (c[1] - q[1]) + (c[2] - q[2]) * (c[2] - q[2])
        + (c[3] - q[3]) * (c[3] - q[3])

\* C2: nearest_palette_colour(c) returns the name and the stored colour of
\* a candidate entry at minimal squared distance to c, and of the
\* candidates at that distance the one declared first.
C2_NearestIsFirstMinimum ==
    Returned("nearest_palette_colour") =>
        \E i \in CandidateIdx :
            /\ ret.name = PLEX_PALETTE[i].name
            /\ ret.rgb = PLEX_PALETTE[i].rgb
            /\ \A j \in CandidateIdx :
                 /\ D2(call.rgb, j) >= D2(call.rgb, i)
                 /\ j < i => D2(call.rgb, j) > D2(call.rgb, i)

\* a call on a triple with two candidates at the minimal distance, the
\* earlier of which is returned
C2_Witness ==
    /\ Returned("nearest_palette_colour")
    /\ \E i, j \in CandidateIdx :
         /\ i < j
         /\ D2(call.rgb, i) = D2(call.rgb, j)
         /\ \A k \in CandidateIdx : D2(call.rgb, k) >= D2(call.rgb, i)
         /\ ret.name = PLEX_PALETTE[i].name

\* C3: nearest_palette_colour never returns a surface colour: the name it
\* returns is not bg_main, not bg_elevated, and does not start with bg_.
C3_NeverSurfaceColour ==
    Returned("nearest_palette_colour") =>
        /\ ret.name \notin {N_bg_main, N_bg_elevated}
        /\ ~(Len(ret.name) >= 3 /\ SubSeq(ret.name, 1, 3) = <<"b", "g", "_">>)

\* a call on exactly the colour of bg_main, answered with lavender
C3_Witness ==
    /\ Returned("nearest_palette_colour")
    /\ call.rgb = <<244, 244, 251>>
    /\ ret.name = N_lavender
    /\ ret.rgb = <<227, 227, 237>>

HasPrefix(t, p) == Len(t) >= Len(p) /\ \A k \in 1..Len(p) : t[k] = p[k]

\* raw[i..j] is raw without its leading and trailing whitespace
IsTrimOf(raw, i, j) ==
    /\ \A k \in 1..(i - 1) : raw[k] \in Whitespace
    /\ \A k \in (j + 1)..Len(raw) : raw[k] \in Whitespace
    /\ IF i <= j
       THEN raw[i] \notin Whitespace /\ raw[j] \notin Whitespace
       ELSE j = i - 1 /\ \A k \in 1..Len(raw) : raw[k] \in Whitespace

\* what C4 says prepare_data returns for the trimmed text t
Formatted(t, mode) ==
    CASE mode = "url" ->
            IF HasPrefix(t, S_http) \/ HasPrefix(t, S_https) THEN t
            ELSE <<"h", "t", "t", "p", "s", ":", "/", "/">> \o t
      [] mode = "tel" -> <<"t", "e", "l", ":">> \o t
      [] mode = "email" -> <<"m", "a", "i", "l", "t", "o", ":">> \o t
      [] mode = "sms" -> <<"s", "m", "s", ":">> \o t
      [] mode = "auto" -> t

\* C4: prepare_data trims the raw text and returns, by mode, the trimmed
\* text with its scheme prefix (in url mode only if it has none), and has
\* no error outcome.
C4_PrepareData ==
    Returned("prepare_data") =>
        /\ ret.exc = "none"
        /\ \E i \in 1..(Len(call.raw) + 1), j \in 0..Len(call.raw) :
             /\ IsTrimOf(call.raw, i, j)
             /\ ret.value = Formatted(SubSeq(call.raw, i, j), call.mode)

\* a url-mode call on " https://a.com " padded with whitespace
C4_Witness ==
    /\ Returned("prepare_data")
    /\ call.mode = "url"
    /\ call.raw = <<" ">> \o S_https \o S_a_com \o <<"\n">>
    /\ ret.value = S_https \o S_a_com

\* the pixels the filter of lines 87-91 keeps
Survivors(pixels) ==
    {i \in DOMAIN pixels :
        ~(pixels[i][4] < 32
          \/ (pixels[i][1] > 245 /\ pixels[i][2] > 245 /\ pixels[i][3] > 245))}

\* C5: on a decoded logo none of whose pixels survives the filter,
\* infer_qr_colours_from_logo divides by nothing and returns #6F45BC
\* (deep_lilac) and #F4F4FB (bg_main); when a pixel survives, every
\* divisor is the strictly positive number of survivors.
C5_NoSurvivorFallback ==
    Returned("infer_qr_colours_from_logo") /\ call.file.kind = "valid" =>
        /\ ret.exc = "none"
        /\ IF Survivors(call.file.pixels) = {}
           THEN /\ ret.divisors = <<>>
                /\ ret.fill = <<"#", "6", "F", "4", "5", "B", "C">>
                /\ ret.bg = <<"#", "F", "4", "F", "4", "F", "B">>
           ELSE /\ ret.divisors # <<>>
                /\ \A k \in DOMAIN ret.divisors :
                     /\ ret.divisors[k] > 0
                     /\ ret.divisors[k] = Cardinality(Survivors(call.file.pixels))
                /\ ret.bg = <<"#", "F", "4", "F", "4", "F", "B">>

\* a call on a logo of transparent and white pixels only
C5_Witness ==
    /\ Returned("infer_qr_colours_from_logo")
    /\ call.file.kind = "valid"
    /\ <<0, 0, 0, 0>> \in Range(call.file.pixels)
    /\ <<255, 255, 255, 255>> \in Range(call.file.pixels)
    /\ Survivors(call.file.pixels) = {}
    /\ ret.fill = <<"#", "6", "F", "4", "5", "B", "C">>

\* C6: overlay_logo_with_container with a logo path that names no existing
\* file returns the input bitmap unchanged and prints only the warning.
C6_MissingLogoLeavesBitmap ==
    Returned("overlay_logo_with_container") /\ call.file.kind = "missing" =>
        /\ ret.exc = "none"
        /\ ret.img = call.qr_image
        /\ ret.stdout = <<"[WARN] Logo path does not exist">>

\* a call with a missing logo file on a bitmap that is not even RGBA
C6_Witness ==
    /\ Returned("overlay_logo_with_container")
    /\ call.file.kind = "missing"
    /\ call.qr_image.mode = "RGB"
    /\ ret.img.mode = "RGB"
    /\ ret.img.size = <<290, 290>>

\* round(w * 0.03), halves up
Round3Pct(w) == (w * 3 + 50) \div 100

\* C7 as stated: the canvas of add_modern_frame is W + 2 * round(W * 0.03)
\* wide and H + 2 * round(W * 0.03) high, each within one pixel.
C7_FrameSizeRounded ==
    Returned("add_modern_frame") =>
        LET w == call.qr_image.size[1]
            h == call.qr_image.size[2]
        IN  /\ Abs(ret.img.size[1] - (w + 2 * Round3Pct(w))) <= 1
            /\ Abs(ret.img.size[2] - (h + 2 * Round3Pct(w))) <= 1

\* C7 amended: the canvas is exactly W + 2 * p wide and H + 2 * p high,
\* p being W * 0.03 truncated to an integer, which is within two pixels,
\* and not always within one, of the rounded padding.
C7_FrameSizeTruncated ==
    Returned("add_modern_frame") =>
        LET w == call.qr_image.size[1]
            h == call.qr_image.size[2]
        IN  /\ \E p \in 0..w :
                 /\ 100 * p <= 3 * w
                 /\ 3 * w < 100 * (p + 1)
                 /\ ret.img.size = <<w + 2 * p, h + 2 * p>>
            /\ Abs(ret.img.size[1] - (w + 2 * Round3Pct(w))) <= 2
            /\ Abs(ret.img.size[2] - (h + 2 * Round3Pct(w))) <= 2

\* the default 290 pixel bitmap, framed to 306 and not 308 pixels
C7_Witness ==
    /\ Returned("add_modern_frame")
    /\ call.qr_image.size = <<290, 290>>
    /\ ret.img.size = <<306, 306>>
    /\ Round3Pct(290) = 9

===========================================================================
